---- MODULE Spec2Model ----
(***************************************************************************)
(* The Index page of the Codeforces "cheater detector":                    *)
(* src/src/pages/Index.tsx.  The component keeps four pieces of React      *)
(* state (username, loading, result, userInfo) and one asynchronous        *)
(* handler, analyzeUser, that validates the handle, asks the remote        *)
(* platform for the profile and then for the submission history, and       *)
(* derives the AnalysisResult.  Every `await` of the handler is a          *)
(* suspension point; the code between two suspension points runs as one    *)
(* step.  The remote platform and the user are the environment.            *)
(*                                                                         *)
(* Optional values (a nullable state, an optional JSON field) are          *)
(* sequences of length at most one: <<>> is null/undefined/absent and      *)
(* <<v>> is the value v.  The handle is a sequence of characters so that   *)
(* String.prototype.trim is computed, not assumed.                         *)
(***************************************************************************)
EXTENDS Integers, Sequences, FiniteSets

(***************************************************************************)
(* Bounds of the model.                                                    *)
(***************************************************************************)
\* at most this many calls of analyzeUser are in flight at a time
MaxInFlight == 2
\* the remote history holds at most this many submissions
MaxSubs == 13

(***************************************************************************)
(* Program constants.                                                      *)
(***************************************************************************)
\* skippedSubmissions.slice(0, 10)
SliceEnd == 10
\* result.suspiciousSubmissions.slice(0, 5) of the compact layout
CompactSliceEnd == 5

Null == <<>>
Some(v) == <<v>>

Min(a, b) == IF a < b THEN a ELSE b

(***************************************************************************)
(* Strings of the input field.                                             *)
(***************************************************************************)
Whitespace == {" "}

\* What the user types in the input: nothing, blanks, a handle, and another
\* handle with blanks around it.
Handles == {<<>>, <<" ">>, <<"a">>, <<" ", "b", " ">>}

RECURSIVE TrimStart(_)
TrimStart(s) ==
  IF s = <<>> THEN s
  ELSE IF Head(s) \in Whitespace THEN TrimStart(Tail(s)) ELSE s

RECURSIVE TrimEnd(_)
TrimEnd(s) ==
  IF s = <<>> THEN s
  ELSE IF s[Len(s)] \in Whitespace THEN TrimEnd(SubSeq(s, 1, Len(s) - 1)) ELSE s

\* String.prototype.trim
Trim(s) == TrimEnd(TrimStart(s))

\* (the test without the trim: !username)
IsEmpty(s) == s = <<>>

\* !username.trim(): the empty string is the only falsy string
IsBlank(s) == Trim(s) = <<>>

(***************************************************************************)
(* Domain types (interface Submission, interface AnalysisResult) and the   *)
(* payloads of the two remote endpoints.                                   *)
(***************************************************************************)
SKIPPED == Some("SKIPPED")

\* verdict?: string -- absent while the submission is still being judged
Verdicts == {Null, Some("OK"), SKIPPED}

\* Verdict patterns of the histories the remote platform returns: a history
\* of n submissions repeats its pattern from the newest submission on.
AllSkipped == <<SKIPPED>>

Mixed == <<Some("OK"), SKIPPED, Null>>

MostlySkipped ==
  <<SKIPPED, Null, Some("OK"), SKIPPED, SKIPPED, SKIPPED, SKIPPED, SKIPPED,
    SKIPPED, SKIPPED, SKIPPED, SKIPPED, SKIPPED, SKIPPED>>

\* problem: { contestId?: number; index: string; ... }: the problems of the
\* submissions with an even id are practice-only and have no contestId
Problem(id) ==
  [contestId |-> IF id % 2 = 0 THEN Null ELSE Some(1000 + id),
   index |-> "A"]

\* The remote history: newest first, ids unique and decreasing.
History(n, pattern) ==
  [i \in 1..n |->
     [id |-> n - i + 1,
      verdict |-> pattern[((i - 1) % Len(pattern)) + 1],
      problem |-> Problem(n - i + 1)]]

\* Short histories, and histories long enough to hold SliceEnd skipped
\* submissions and more.
Histories ==
  {History(n, Mixed) : n \in 0..3}
  \cup {History(n, MostlySkipped) : n \in {MaxSubs - 1, MaxSubs}}
  \cup {History(MaxSubs, AllSkipped)}

\* rating?: number, maxRating?: number of a user.info record
Profiles(h) == {[handle |-> h, rating |-> Some(0), maxRating |-> Some(1500)]}

\* comment of a FAILED envelope: absent, empty, or a text
Comments == {Null, Some(""), Some("handle not found")}

\* JSON envelope of user.info?handles=h
UserPayloads(h) ==
  {[status |-> "OK", comment |-> Null, result |-> <<p>>] : p \in Profiles(h)}
  \cup {[status |-> "FAILED", comment |-> c, result |-> <<>>] : c \in Comments}

\* JSON envelope of user.status?handle=h
SubmissionsPayloads ==
  {[status |-> "OK", comment |-> Null, result |-> r] : r \in Histories}
  \cup {[status |-> "FAILED", comment |-> c, result |-> <<>>] : c \in Comments}

\* The rejection values of fetch() and of Response.json()
FetchError == [name |-> "TypeError", message |-> "Failed to fetch"]
JsonError == [name |-> "SyntaxError", message |-> "Unexpected token < in JSON"]

(***************************************************************************)
(* JavaScript numbers that are quotients of integers: num/den in lowest    *)
(* terms, den = 0 for the non-finite results of a division by zero.        *)
(***************************************************************************)
RECURSIVE GCD(_, _)
GCD(a, b) == IF b = 0 THEN a ELSE GCD(b, a % b)

Number(n) == [num |-> n, den |-> 1]
NaN == [num |-> 0, den |-> 0]
Infinity == [num |-> 1, den |-> 0]

Quotient(n, d) == [num |-> n \div GCD(n, d), den |-> d \div GCD(n, d)]

\* a / b on non-negative integers
Divide(a, b) ==
  IF b = 0 THEN (IF a = 0 THEN NaN ELSE Infinity) ELSE Quotient(a, b)

\* x * k for an integer k > 0
Times(x, k) == IF x.den = 0 THEN x ELSE Quotient(x.num * k, x.den)

(***************************************************************************)
(* The analysis of analyzeUser (Index.tsx lines 83-101).                   *)
(***************************************************************************)
\* sub.verdict === 'SKIPPED'
IsSkipped(sub) == sub.verdict = SKIPPED

\* submissions.filter(sub => sub.verdict === 'SKIPPED')
SkippedSubmissions(submissions) == SelectSeq(submissions, IsSkipped)

\* Array.prototype.slice(start, end) for 0 <= start <= end
Slice(s, start, end) == SubSeq(s, start + 1, Min(end, Len(s)))

\* (the quotient without the guard on the total)
SkippedPercentageUnguarded(skippedCount, totalSubmissions) ==
  Times(Divide(skippedCount, totalSubmissions), 100)

\* totalSubmissions > 0 ? (skippedCount / totalSubmissions) * 100 : 0
SkippedPercentage(skippedCount, totalSubmissions) ==
  IF totalSubmissions > 0
    THEN Times(Divide(skippedCount, totalSubmissions), 100)
    ELSE Number(0)

\* (a threshold of more than one skipped submission)
IsCheatAboveOne(skippedCount) == skippedCount > 1

\* const isCheat = skippedCount > 0
IsCheat(skippedCount) == skippedCount > 0

\* (a count taken from the displayed sample instead of the whole partition)
SkippedCountOfSample(skippedSubmissions) ==
  Len(Slice(skippedSubmissions, 0, SliceEnd))

\* skippedSubmissions.length
SkippedCount(skippedSubmissions) == Len(skippedSubmissions)

\* (the last ten instead of the first ten: slice(-10))
SuspiciousSubmissionsFromEnd(skippedSubmissions) ==
  SubSeq(skippedSubmissions,
         Len(skippedSubmissions) - Min(SliceEnd, Len(skippedSubmissions)) + 1,
         Len(skippedSubmissions))

\* (the whole partition, without the slice)
SuspiciousSubmissionsUncapped(skippedSubmissions) == skippedSubmissions

\* skippedSubmissions.slice(0, 10)
SuspiciousSubmissions(skippedSubmissions) == Slice(skippedSubmissions, 0, SliceEnd)

\* (the total taken over the judged submissions only)
AnalyzeJudgedOnly(submissions) ==
  LET skippedSubmissions == SkippedSubmissions(submissions)
      Judged(sub) == sub.verdict # Null
      totalSubmissions == Len(SelectSeq(submissions, Judged))
      skippedCount == SkippedCount(skippedSubmissions)
  IN [isCheat |-> IsCheat(skippedCount),
      totalSubmissions |-> totalSubmissions,
      skippedSubmissions |-> skippedCount,
      skippedPercentage |-> SkippedPercentage(skippedCount, totalSubmissions),
      suspiciousSubmissions |-> SuspiciousSubmissions(skippedSubmissions)]

\* const analysisResult: AnalysisResult = { ... }
Analyze(submissions) ==
  LET skippedSubmissions == SkippedSubmissions(submissions)
      totalSubmissions == Len(submissions)
      skippedCount == SkippedCount(skippedSubmissions)
  IN [isCheat |-> IsCheat(skippedCount),
      totalSubmissions |-> totalSubmissions,
      skippedSubmissions |-> skippedCount,
      skippedPercentage |-> SkippedPercentage(skippedCount, totalSubmissions),
      suspiciousSubmissions |-> SuspiciousSubmissions(skippedSubmissions)]

(***************************************************************************)
(* The toasts of analyzeUser.                                              *)
(***************************************************************************)
\* lines 52-56
EnterUsernameToast ==
  [title |-> "Error", description |-> <<"Please enter a username">>,
   variant |-> Some("destructive")]

\* lines 106-110
CheaterToast(skippedCount) ==
  [title |-> "Potential Cheater Detected!",
   description |-> <<"Found ", skippedCount, " skipped submissions">>,
   variant |-> Some("destructive")]

\* lines 112-115
CompleteToast ==
  [title |-> "Analysis Complete",
   description |-> <<"No suspicious activity detected">>,
   variant |-> Null]

\* lines 120-124; every value this model throws is an Error
ErrorToast(error) ==
  [title |-> "Error", description |-> <<error.message>>,
   variant |-> Some("destructive")]

\* (the generic message whatever the platform says)
MessageGeneric(data, generic) == generic

\* data.comment || generic: an absent and an empty comment are both falsy
MessageOf(data, generic) ==
  IF data.comment # Null /\ data.comment[1] # "" THEN data.comment[1] ELSE generic

\* userData.status !== 'OK', submissionsData.status !== 'OK'
NotOK(data) == data.status # "OK"

(***************************************************************************)
(* The rating cells of the "User Information" box (lines 140-149 and       *)
(* 305-316).                                                               *)
(***************************************************************************)
\* !rating, for an optional number: undefined and 0 are both falsy
Falsy(rating) == rating = Null \/ rating[1] = 0

\* const getRatingClass = (rating?: number) => ...
getRatingClass(rating) ==
  IF Falsy(rating) THEN "cf-rating-newbie"
  ELSE IF rating[1] < 1200 THEN "cf-rating-newbie"
  ELSE IF rating[1] < 1400 THEN "cf-rating-pupil"
  ELSE IF rating[1] < 1600 THEN "cf-rating-specialist"
  ELSE IF rating[1] < 1900 THEN "cf-rating-expert"
  ELSE IF rating[1] < 2100 THEN "cf-rating-candidate-master"
  ELSE IF rating[1] < 2400 THEN "cf-rating-master"
  ELSE "cf-rating-grandmaster"

\* {userInfo.rating || 'Unrated'}: the child of the cell is a number or the
\* string 'Unrated'
RatingCell(rating) ==
  [className |-> getRatingClass(rating),
   string |-> IF Falsy(rating) THEN Some("Unrated") ELSE Null,
   number |-> IF Falsy(rating) THEN Null ELSE rating]

(***************************************************************************)
(* The link to the problem of a submission (lines 158-163).  A URL is the  *)
(* sequence of the pieces of its template literal.                         *)
(***************************************************************************)
Digits == <<"0", "1", "2", "3", "4", "5", "6", "7", "8", "9">>

\* String(n) for an integer n >= 0
RECURSIVE Decimal(_)
Decimal(n) ==
  IF n < 10 THEN <<Digits[n + 1]>>
  ELSE Decimal(n \div 10) \o <<Digits[(n % 10) + 1]>>

\* ${x} for an optional number x: String(undefined) is 'undefined'
TemplateValue(x) == IF x = Null THEN <<"undefined">> ELSE Decimal(x[1])

\* const getProblemUrl = (submission: Submission) => ...
getProblemUrl(submission) ==
  IF ~Falsy(submission.problem.contestId)
    THEN <<"https://codeforces.com/contest/">>
         \o TemplateValue(submission.problem.contestId)
         \o <<"/problem/">>
         \o <<submission.problem.index>>
    ELSE <<"https://codeforces.com/problemset/problem/">>
         \o TemplateValue(submission.problem.contestId)
         \o <<"/">>
         \o <<submission.problem.index>>

(***************************************************************************)
(* The "Skipped Submissions" table of the compact layout (the second       *)
(* component of src/unnamed/part_001, lines 697-745).                      *)
(***************************************************************************)
\* result?.isCheat && result.suspiciousSubmissions.length > 0
CompactTableShown(res) ==
  res # Null /\ res[1].isCheat /\ Len(res[1].suspiciousSubmissions) > 0

\* Skipped Submissions ({result.suspiciousSubmissions.length})
CompactHeadingCount(res) == Len(res[1].suspiciousSubmissions)

\* result.suspiciousSubmissions.slice(0, 5).map(... <tr> ...)
CompactRows(res) == Slice(res[1].suspiciousSubmissions, 0, CompactSliceEnd)

(***************************************************************************)
(* State.                                                                  *)
(***************************************************************************)
VARIABLES
  username,            \* useState('')                          (line 43)
  loading,             \* useState(false)                       (line 44)
  result,              \* useState<AnalysisResult | null>(null) (line 45)
  userInfo,            \* useState<any>(null)                   (line 46)
  toast,               \* the argument of the last call of toast()
  pc,                  \* where each call of analyzeUser in flight stands
  handle,              \* the username the call closed over
  requests,            \* the requests the call has sent to the platform
  delivered,           \* what the last step delivered to the call it resumed
  overwritten          \* the result the last step replaced by another result

vars ==
  <<username, loading, result, userInfo, toast, pc, handle, requests,
    delivered, overwritten>>

\* the state of the component
display == <<username, loading, result, userInfo, toast>>

\* the state of the calls in flight
calls == <<pc, handle, requests>>

Invocations == 1..MaxInFlight

Init ==
  /\ username = <<>>
  /\ loading = FALSE
  /\ result = Null
  /\ userInfo = Null
  /\ toast = Null
  /\ pc = [i \in Invocations |-> "idle"]
  /\ handle = [i \in Invocations |-> <<>>]
  /\ requests = [i \in Invocations |-> <<>>]
  /\ delivered = Null
  /\ overwritten = Null

\* fetch(`https://codeforces.com/api/user.info?handles=${username}`)
UserInfoRequest(h) == [api |-> "user.info", handle |-> h]

\* fetch(`https://codeforces.com/api/user.status?handle=${username}`)
UserStatusRequest(h) == [api |-> "user.status", handle |-> h]

\* fetch() rejected
Unreachable(api) ==
  [api |-> api, ok |-> Null, data |-> Null, error |-> Some(FetchError)]

\* Response.json() rejected: the body of the response is no JSON
Unparsable(api, response) ==
  [api |-> api, ok |-> Some(response.ok), data |-> Null,
   error |-> Some(JsonError)]

\* Response.json() resolved with the envelope
Parsed(api, response, data) ==
  [api |-> api, ok |-> Some(response.ok), data |-> Some(data), error |-> Null]

\* The Response objects fetch() resolves with: analyzeUser reads nothing of
\* a Response but its body, so the HTTP status (Response.ok) and the body of
\* a response are both drawn in the step that reads the body.
Responses == {[ok |-> ok] : ok \in BOOLEAN}

\* the call returns: its locals are gone
Return(i) ==
  /\ pc' = [pc EXCEPT ![i] = "idle"]
  /\ handle' = [handle EXCEPT ![i] = <<>>]
  /\ requests' = [requests EXCEPT ![i] = <<>>]

(***************************************************************************)
(* onChange={(e) => setUsername(e.target.value)}                           *)
(***************************************************************************)
SetUsername ==
  /\ \E v \in Handles : v # username /\ username' = v
  /\ delivered' = Null
  /\ overwritten' = Null
  /\ UNCHANGED <<loading, result, userInfo, toast>>
  /\ UNCHANGED calls

(***************************************************************************)
(* analyzeUser up to its first await (lines 50-66).                        *)
(***************************************************************************)
\* (the display is cleared before the handle is tested)
RejectClearing ==
  /\ IsBlank(username)
  /\ toast' = Some(EnterUsernameToast)
  /\ delivered' = Null
  /\ overwritten' = Null
  /\ result' = Null
  /\ userInfo' = Null
  /\ UNCHANGED <<username, loading>>
  /\ UNCHANGED calls

\* lines 51-58: the handle is blank, toast and return
Reject ==
  /\ IsBlank(username)
  /\ toast' = Some(EnterUsernameToast)
  /\ delivered' = Null
  /\ overwritten' = Null
  /\ UNCHANGED <<username, loading, result, userInfo>>
  /\ UNCHANGED calls

\* (the profile request is sent with the display left as it is)
StartKeepsDisplay(i) ==
  /\ ~IsBlank(username)
  /\ loading' = TRUE
  /\ handle' = [handle EXCEPT ![i] = username]
  /\ requests' = [requests EXCEPT ![i] = Append(@, UserInfoRequest(username))]
  /\ pc' = [pc EXCEPT ![i] = "fetchUser"]
  /\ delivered' = Null
  /\ overwritten' = Null
  /\ UNCHANGED <<username, toast, result, userInfo>>

\* lines 60-66: clear the display and send the profile request
Start(i) ==
  /\ ~IsBlank(username)
  /\ loading' = TRUE
  /\ result' = Null
  /\ userInfo' = Null
  /\ handle' = [handle EXCEPT ![i] = username]
  /\ requests' = [requests EXCEPT ![i] = Append(@, UserInfoRequest(username))]
  /\ pc' = [pc EXCEPT ![i] = "fetchUser"]
  /\ delivered' = Null
  /\ overwritten' = Null
  /\ UNCHANGED <<username, toast>>

\* the call takes the first free place among the calls in flight
FreePlace(i) == pc[i] = "idle" /\ \A j \in 1..(i - 1) : pc[j] # "idle"

AnalyzeUser == Reject \/ \E i \in Invocations : FreePlace(i) /\ Start(i)

\* <button onClick={analyzeUser} disabled={loading}>
ClickAnalyze == ~loading /\ AnalyzeUser

\* onKeyPress={(e) => e.key === 'Enter' && analyzeUser()}
Keys == {"Enter", "a"}

OnKeyPress == \E key \in Keys : key = "Enter" /\ AnalyzeUser

(***************************************************************************)
(* catch (error) { toast } finally { setLoading(false) } (lines 118-127)   *)
(***************************************************************************)
\* (a catch clause that clears the display)
CatchClearing(i, error) ==
  /\ toast' = Some(ErrorToast(error))
  /\ loading' = FALSE
  /\ Return(i)
  /\ result' = Null
  /\ userInfo' = Null

\* (a catch clause without the finally clause: loading stays as it is)
CatchLeavesLoading(i, error) ==
  /\ toast' = Some(ErrorToast(error))
  /\ loading' = loading
  /\ Return(i)
  /\ UNCHANGED <<result, userInfo>>

\* The profile and the result are not touched on this path.
Catch(i, error) ==
  /\ toast' = Some(ErrorToast(error))
  /\ loading' = FALSE
  /\ Return(i)
  /\ UNCHANGED <<result, userInfo>>

(***************************************************************************)
(* await fetch(user.info) settles (line 66).                               *)
(***************************************************************************)
\* (a rejected fetch is tried again)
UserFetchRetries(i) ==
  /\ pc[i] = "fetchUser"
  /\ delivered' = Some(Unreachable("user.info"))
  /\ requests' = [requests EXCEPT ![i] = Append(@, UserInfoRequest(handle[i]))]
  /\ overwritten' = Null
  /\ UNCHANGED display
  /\ UNCHANGED <<pc, handle>>

UserFetchRejects(i) ==
  /\ pc[i] = "fetchUser"
  /\ delivered' = Some(Unreachable("user.info"))
  /\ Catch(i, FetchError)
  /\ overwritten' = Null
  /\ UNCHANGED username

UserFetchResolves(i) ==
  /\ pc[i] = "fetchUser"
  /\ pc' = [pc EXCEPT ![i] = "jsonUser"]
  /\ delivered' = Null
  /\ overwritten' = Null
  /\ UNCHANGED display
  /\ UNCHANGED <<handle, requests>>

(***************************************************************************)
(* await userResponse.json() settles (lines 67-76).                        *)
(***************************************************************************)
UserJsonRejects(i) ==
  /\ pc[i] = "jsonUser"
  /\ \E userResponse \in Responses :
       delivered' = Some(Unparsable("user.info", userResponse))
  /\ Catch(i, JsonError)
  /\ overwritten' = Null
  /\ UNCHANGED username

\* (the failure is reported but not thrown: the call goes on)
UserFailedGoesOn(i, data) ==
  /\ NotOK(data)
  /\ toast' = Some(ErrorToast([name |-> "Error",
                               message |-> MessageOf(data, "User not found")]))
  /\ requests' = [requests EXCEPT ![i] = Append(@, UserStatusRequest(handle[i]))]
  /\ pc' = [pc EXCEPT ![i] = "fetchSubmissions"]
  /\ UNCHANGED <<loading, result, userInfo, handle>>

\* lines 69-71: the envelope is not OK
UserFailed(i, data) ==
  /\ NotOK(data)
  /\ Catch(i, [name |-> "Error", message |-> MessageOf(data, "User not found")])

\* (the history request built from the input as it is now)
UserFoundReadsInput(i, data) ==
  /\ ~NotOK(data)
  /\ userInfo' = Some(data.result[1])
  /\ requests' = [requests EXCEPT ![i] = Append(@, UserStatusRequest(username))]
  /\ pc' = [pc EXCEPT ![i] = "fetchSubmissions"]
  /\ UNCHANGED <<loading, result, toast, handle>>

\* lines 73-76: show the profile and send the history request
UserFound(i, data) ==
  /\ ~NotOK(data)
  /\ userInfo' = Some(data.result[1])
  /\ requests' = [requests EXCEPT ![i] = Append(@, UserStatusRequest(handle[i]))]
  /\ pc' = [pc EXCEPT ![i] = "fetchSubmissions"]
  /\ UNCHANGED <<loading, result, toast, handle>>

UserJsonResolves(i) ==
  /\ pc[i] = "jsonUser"
  /\ \E userResponse \in Responses, userData \in UserPayloads(Trim(handle[i])) :
       /\ delivered' = Some(Parsed("user.info", userResponse, userData))
       /\ (UserFailed(i, userData) \/ UserFound(i, userData))
  /\ overwritten' = Null
  /\ UNCHANGED username

(***************************************************************************)
(* await fetch(user.status) settles (line 76).                             *)
(***************************************************************************)
SubmissionsFetchRejects(i) ==
  /\ pc[i] = "fetchSubmissions"
  /\ delivered' = Some(Unreachable("user.status"))
  /\ Catch(i, FetchError)
  /\ overwritten' = Null
  /\ UNCHANGED username

SubmissionsFetchResolves(i) ==
  /\ pc[i] = "fetchSubmissions"
  /\ pc' = [pc EXCEPT ![i] = "jsonSubmissions"]
  /\ delivered' = Null
  /\ overwritten' = Null
  /\ UNCHANGED display
  /\ UNCHANGED <<handle, requests>>

(***************************************************************************)
(* await submissionsResponse.json() settles (lines 77-127).                *)
(***************************************************************************)
SubmissionsJsonRejects(i) ==
  /\ pc[i] = "jsonSubmissions"
  /\ \E submissionsResponse \in Responses :
       delivered' = Some(Unparsable("user.status", submissionsResponse))
  /\ Catch(i, JsonError)
  /\ overwritten' = Null
  /\ UNCHANGED username

\* lines 79-81: the envelope is not OK
SubmissionsFailed(i, data) ==
  /\ NotOK(data)
  /\ Catch(i, [name |-> "Error",
               message |-> MessageOf(data, "Failed to fetch submissions")])

\* (an empty history taken for a failure)
SubmissionsAnalyzedNonEmpty(i, data) ==
  /\ ~NotOK(data)
  /\ IF data.result = <<>>
       THEN Catch(i, [name |-> "Error", message |-> "No submissions found"])
       ELSE /\ result' = Some(Analyze(data.result))
            /\ toast' = IF Analyze(data.result).isCheat
                          THEN Some(CheaterToast(Analyze(data.result).skippedSubmissions))
                          ELSE Some(CompleteToast)
            /\ loading' = FALSE
            /\ Return(i)
            /\ UNCHANGED userInfo

\* (the count kept in the state of the component and added to by every call)
SubmissionsAnalyzedAccumulating(i, data) ==
  /\ ~NotOK(data)
  /\ LET earlier == IF result = Null THEN 0 ELSE result[1].skippedSubmissions
         analysisResult ==
           [Analyze(data.result) EXCEPT !.skippedSubmissions = earlier + @]
     IN /\ result' = Some(analysisResult)
        /\ toast' = IF analysisResult.isCheat
                      THEN Some(CheaterToast(analysisResult.skippedSubmissions))
                      ELSE Some(CompleteToast)
  /\ loading' = FALSE
  /\ Return(i)
  /\ UNCHANGED userInfo

\* (a result already displayed is kept: the first call to complete wins)
SubmissionsAnalyzedFirstWins(i, data) ==
  /\ ~NotOK(data)
  /\ result' = IF result = Null THEN Some(Analyze(data.result)) ELSE result
  /\ toast' = IF Analyze(data.result).isCheat
                THEN Some(CheaterToast(Analyze(data.result).skippedSubmissions))
                ELSE Some(CompleteToast)
  /\ loading' = FALSE
  /\ Return(i)
  /\ UNCHANGED userInfo

\* lines 83-116 and 125-127: analyse, show the result, toast, stop loading
SubmissionsAnalyzed(i, data) ==
  /\ ~NotOK(data)
  /\ LET submissions == data.result
         analysisResult == Analyze(submissions)
     IN /\ result' = Some(analysisResult)
        /\ toast' = IF analysisResult.isCheat
                      THEN Some(CheaterToast(analysisResult.skippedSubmissions))
                      ELSE Some(CompleteToast)
  /\ loading' = FALSE
  /\ Return(i)
  /\ UNCHANGED userInfo

SubmissionsJsonResolves(i) ==
  /\ pc[i] = "jsonSubmissions"
  /\ \E submissionsResponse \in Responses,
        submissionsData \in SubmissionsPayloads :
       /\ delivered' =
            Some(Parsed("user.status", submissionsResponse, submissionsData))
       /\ \/ SubmissionsFailed(i, submissionsData)
          \/ SubmissionsAnalyzed(i, submissionsData)
  /\ overwritten' = IF result # Null /\ result' # result THEN result ELSE Null
  /\ UNCHANGED username

(***************************************************************************)
(* The specification.                                                      *)
(***************************************************************************)
Next ==
  \/ SetUsername
  \/ ClickAnalyze
  \/ OnKeyPress
  \/ \E i \in Invocations : UserFetchRejects(i)
  \/ \E i \in Invocations : UserFetchResolves(i)
  \/ \E i \in Invocations : UserJsonRejects(i)
  \/ \E i \in Invocations : UserJsonResolves(i)
  \/ \E i \in Invocations : SubmissionsFetchRejects(i)
  \/ \E i \in Invocations : SubmissionsFetchResolves(i)
  \/ \E i \in Invocations : SubmissionsJsonRejects(i)
  \/ \E i \in Invocations : SubmissionsJsonResolves(i)

Spec == Init /\ [][Next]_vars

\* a promise the call in the place i awaits settles
Settle(i) ==
  \/ UserFetchRejects(i)
  \/ UserFetchResolves(i)
  \/ UserJsonRejects(i)
  \/ UserJsonResolves(i)
  \/ SubmissionsFetchRejects(i)
  \/ SubmissionsFetchResolves(i)
  \/ SubmissionsJsonRejects(i)
  \/ SubmissionsJsonResolves(i)

\* Every fetch() and every json() a call awaits eventually resolves or
\* rejects.
LiveSpec == Spec /\ \A i \in Invocations : WF_vars(Settle(i))

(***************************************************************************)
(* What the properties below speak about.                                  *)
(***************************************************************************)
\* The last step resumed a call with the OK envelope of its history request:
\* the call has succeeded in that step.
Succeeded ==
  /\ delivered # Null
  /\ delivered[1].api = "user.status"
  /\ delivered[1].data # Null
  /\ delivered[1].data[1].status = "OK"

\* the history that call fetched
Fetched == delivered[1].data[1].result

\* the submission carries a verdict and the verdict is the sentinel
HasSentinel(sub) == sub.verdict # Null /\ sub.verdict[1] = "SKIPPED"

\* the positions of the sentinel-verdict submissions of a history
SentinelPositions(history) ==
  {i \in 1..Len(history) : HasSentinel(history[i])}

\* K: how many submissions of the history carry the sentinel verdict
K(history) == Cardinality(SentinelPositions(history))

\* the position in the history of its j-th sentinel-verdict submission
NthSentinel(history, j) ==
  CHOOSE i \in SentinelPositions(history) :
    Cardinality({k \in SentinelPositions(history) : k <= i}) = j

(***************************************************************************)
(* C1: when a call of analyzeUser succeeds, skippedSubmissions of the      *)
(* result is the number of fetched submissions whose verdict is present    *)
(* and equal to 'SKIPPED': absent and other verdicts are not counted, and  *)
(* the count is not capped at 10.                                          *)
(***************************************************************************)
C1_CountIsExact ==
  Succeeded =>
    /\ result # Null
    /\ result[1].skippedSubmissions = K(Fetched)

\* a success over a history with more than 10 sentinel verdicts, an absent
\* verdict and another verdict
C1_Witness ==
  /\ Succeeded
  /\ K(Fetched) > SliceEnd
  /\ \E i \in 1..Len(Fetched) : Fetched[i].verdict = Null
  /\ \E i \in 1..Len(Fetched) : Fetched[i].verdict = Some("OK")
  /\ result[1].skippedSubmissions = K(Fetched)

(***************************************************************************)
(* C2: when a call of analyzeUser succeeds, isCheat of the result is true  *)
(* exactly when at least one fetched submission carries the sentinel       *)
(* verdict.                                                                *)
(***************************************************************************)
C2_CheatIffAnySkipped ==
  Succeeded =>
    /\ result # Null
    /\ result[1].isCheat = (K(Fetched) > 0)

\* a success over a history of several submissions, exactly one of them
\* with the sentinel verdict, and not the newest
C2_Witness ==
  /\ Succeeded
  /\ Len(Fetched) > 1
  /\ K(Fetched) = 1
  /\ ~HasSentinel(Fetched[1])
  /\ result[1].isCheat

(***************************************************************************)
(* C3: when a call of analyzeUser succeeds, suspiciousSubmissions of the   *)
(* result has min(K, 10) elements, and its j-th element is the j-th        *)
(* sentinel-verdict submission of the fetched history, in the order of     *)
(* the history.                                                            *)
(***************************************************************************)
C3_SampleIsPrefix ==
  Succeeded =>
    /\ result # Null
    /\ LET sample == result[1].suspiciousSubmissions
       IN /\ Len(sample) = Min(K(Fetched), SliceEnd)
          /\ \A j \in 1..Len(sample) :
               sample[j] = Fetched[NthSentinel(Fetched, j)]

\* a success over a history with more than 10 sentinel verdicts, with other
\* submissions between the first ten of them
C3_Witness ==
  /\ Succeeded
  /\ K(Fetched) > SliceEnd
  /\ NthSentinel(Fetched, SliceEnd) > SliceEnd
  /\ Len(result[1].suspiciousSubmissions) = SliceEnd

(***************************************************************************)
(* C10: when a call of analyzeUser succeeds over N submissions, K of them  *)
(* with the sentinel verdict, skippedPercentage is K / N * 100 when N > 0  *)
(* and 0 when N = 0; it is a finite number between 0 and 100.              *)
(***************************************************************************)
C10_PercentageIsQuotient ==
  Succeeded =>
    /\ result # Null
    /\ LET x == result[1].skippedPercentage
           N == Len(Fetched)
       IN /\ x.den > 0
          /\ N > 0 => x.num * N = 100 * K(Fetched) * x.den
          /\ N = 0 => x = Number(0)
          /\ 0 <= x.num /\ x.num <= 100 * x.den

\* a success whose percentage is no whole number
C10_Witness ==
  /\ Succeeded
  /\ Len(Fetched) > 0
  /\ K(Fetched) > 0
  /\ result[1].skippedPercentage.den > 1

(***************************************************************************)
(* Steps of a call, as seen from the two states of a step.                 *)
(***************************************************************************)
\* a call begins in the place i
Began(i) == pc[i] = "idle" /\ pc'[i] # "idle"

\* the call in the place i is resumed from its await at `at`
Resumed(i, at) == pc[i] = at /\ pc'[i] # at

\* the call in the place i sends a request to the endpoint api
Sends(i, api) ==
  /\ Len(requests'[i]) = Len(requests[i]) + 1
  /\ requests'[i][Len(requests'[i])].api = api

\* the characters of s are all whitespace (none, when s is empty)
OnlyWhitespace(s) == \A k \in 1..Len(s) : s[k] = " "

\* the last step resumed a call with an envelope whose status is not OK
RemoteFailed ==
  /\ delivered # Null
  /\ delivered[1].data # Null
  /\ delivered[1].data[1].status # "OK"

\* the last step resumed a call with a rejection of fetch() or of json()
TransportFailed == delivered # Null /\ delivered[1].error # Null

\* the generic message of each stage
Generic(api) ==
  IF api = "user.info" THEN "User not found" ELSE "Failed to fetch submissions"

\* the toast reports a failure
IsErrorToast(t) == t # Null /\ t[1].title = "Error"

(***************************************************************************)
(* C4: with an empty or whitespace-only handle, analyzeUser fails with     *)
(* the "Please enter a username" error and sends nothing: in no step       *)
(* taken with such a handle does a call begin or a request leave an idle   *)
(* place, and the step that shows that error changes no call.              *)
(***************************************************************************)
C4_BlankHandleSendsNothing ==
  [][/\ OnlyWhitespace(username) =>
          \A i \in Invocations :
            ~Began(i) /\ (pc[i] = "idle" => requests'[i] = <<>>)
     /\ (toast' = Some(EnterUsernameToast) /\ toast' # toast) =>
          /\ OnlyWhitespace(username)
          /\ UNCHANGED calls]_vars

\* a whitespace-only handle has just been rejected and nothing is in flight
C4_Witness ==
  /\ username = <<" ">>
  /\ toast = Some(EnterUsernameToast)
  /\ \A i \in Invocations : pc[i] = "idle" /\ requests[i] = <<>>

(***************************************************************************)
(* C5: a call sends its history request only in the step in which its      *)
(* profile call returns an envelope with status "OK"; when the profile     *)
(* call returns another status the call fails in that step and sends no    *)
(* history request.                                                        *)
(***************************************************************************)
C5_HistoryOnlyAfterProfileOK ==
  [][\A i \in Invocations :
       /\ Sends(i, "user.status") =>
            /\ Resumed(i, "jsonUser")
            /\ delivered' # Null
            /\ delivered'[1].api = "user.info"
            /\ delivered'[1].data # Null
            /\ delivered'[1].data[1].status = "OK"
       /\ (Resumed(i, "jsonUser") /\ RemoteFailed') =>
            /\ pc'[i] = "idle"
            /\ requests'[i] = <<>>
            /\ IsErrorToast(toast')]_vars

\* a profile call has just returned FAILED: no call is left in flight
C5_Witness ==
  /\ RemoteFailed
  /\ delivered[1].api = "user.info"
  /\ IsErrorToast(toast)
  /\ \A i \in Invocations : pc[i] = "idle" /\ requests[i] = <<>>

(***************************************************************************)
(* C6 as claimed: when a call returns an envelope whose status is not      *)
(* "OK", the message shown is the comment of the envelope when the         *)
(* envelope has one, and the generic message of that stage otherwise.      *)
(***************************************************************************)
C6_CommentWhenPresent ==
  RemoteFailed =>
    /\ IsErrorToast(toast)
    /\ toast[1].description =
         << IF delivered[1].data[1].comment # Null
              THEN delivered[1].data[1].comment[1]
              ELSE Generic(delivered[1].api) >>

(***************************************************************************)
(* C6 as amended: when a call returns an envelope whose status is not      *)
(* "OK", the message shown is the comment of the envelope when the         *)
(* envelope has one that is not the empty string, and the generic message  *)
(* of that stage otherwise.                                                *)
(***************************************************************************)
C6_CommentWhenNotEmpty ==
  RemoteFailed =>
    /\ IsErrorToast(toast)
    /\ toast[1].description =
         << IF /\ delivered[1].data[1].comment # Null
               /\ delivered[1].data[1].comment[1] # ""
              THEN delivered[1].data[1].comment[1]
              ELSE Generic(delivered[1].api) >>

\* the history call has just returned FAILED with a comment, which is shown
C6_Witness ==
  /\ RemoteFailed
  /\ delivered[1].api = "user.status"
  /\ delivered[1].data[1].comment = Some("handle not found")
  /\ toast[1].description = <<"handle not found">>

(***************************************************************************)
(* C7: a call whose profile request, or whose history request, is          *)
(* answered with a non-success HTTP status fails when it reads the         *)
(* answer, whatever the body: it shows an error, goes no further and       *)
(* produces no result.                                                     *)
(***************************************************************************)
C7_NonSuccessStatusFails ==
  [][\A i \in Invocations :
       /\ (Resumed(i, "jsonUser") /\ delivered'[1].ok = Some(FALSE)) =>
            /\ pc'[i] = "idle"
            /\ IsErrorToast(toast')
            /\ UNCHANGED result
       /\ (Resumed(i, "jsonSubmissions") /\ delivered'[1].ok = Some(FALSE)) =>
            /\ IsErrorToast(toast')
            /\ UNCHANGED result]_vars

C9_NoResultBesideFailure == IsErrorToast(toast) => result = Null

(***************************************************************************)
(* C11: when the history call of a call of analyzeUser returns an OK       *)
(* envelope with no submission, the call succeeds: the result displayed is *)
(* {isCheat: false, totalSubmissions: 0, skippedSubmissions: 0,            *)
(* skippedPercentage: 0, suspiciousSubmissions: []} and the toast is the   *)
(* one of a completed analysis, not an error.                              *)
(***************************************************************************)
C11_EmptyHistorySucceeds ==
  (Succeeded /\ Fetched = <<>>) =>
    /\ result = Some([isCheat |-> FALSE,
                      totalSubmissions |-> 0,
                      skippedSubmissions |-> 0,
                      skippedPercentage |-> Number(0),
                      suspiciousSubmissions |-> <<>>])
    /\ toast = Some(CompleteToast)

\* a call has just succeeded over an empty history and a result is displayed
C11_Witness ==
  /\ Succeeded
  /\ Fetched = <<>>
  /\ result # Null
  /\ result[1].totalSubmissions = 0
  /\ ~loading

(***************************************************************************)
(* C12: every request a call of analyzeUser sends, to user.info and to     *)
(* user.status, carries the trimmed handle: the input the call was made    *)
(* with, without its leading and trailing whitespace.                      *)
(***************************************************************************)
C12_RequestsCarryTrimmedHandle ==
  \A i \in Invocations :
    \A k \in 1..Len(requests[i]) :
      requests[i][k].handle = Trim(handle[i])

(***************************************************************************)
(* C13: a call of analyzeUser publishes nothing while it is in flight: a   *)
(* step that resumes a call and leaves it in flight changes neither the    *)
(* displayed profile nor the displayed result.                             *)
(***************************************************************************)
C13_NothingPublishedInFlight ==
  [][\A i \in Invocations :
       (pc[i] # "idle" /\ pc'[i] # pc[i] /\ pc'[i] # "idle") =>
         UNCHANGED <<userInfo, result>>]_vars

(***************************************************************************)
(* C14: a call of analyzeUser sends at most one request to user.info and   *)
(* at most one to user.status, and never retries: the step in which a      *)
(* fetch() or a json() of the call rejects ends the call with an error     *)
(* toast, sends no request and leaves the displayed result as it is.       *)
(***************************************************************************)
C14_NoRetry ==
  [][\A i \in Invocations :
       /\ \A k, l \in 1..Len(requests'[i]) :
            requests'[i][k].api = requests'[i][l].api => k = l
       /\ (pc[i] # "idle" /\ pc'[i] # pc[i] /\ TransportFailed') =>
            /\ pc'[i] = "idle"
            /\ requests'[i] = <<>>
            /\ \A j \in Invocations \ {i} : requests'[j] = requests[j]
            /\ IsErrorToast(toast')
            /\ UNCHANGED result]_vars

\* the fetch of the history has just rejected: the call is over, with an
\* error and without a result
C14_Witness ==
  /\ delivered = Some(Unreachable("user.status"))
  /\ \A i \in Invocations : pc[i] = "idle" /\ requests[i] = <<>>
  /\ toast = Some(ErrorToast(FetchError))
  /\ result = Null

(***************************************************************************)
(* The AnalysisResult of a history, from the history alone.                *)
(***************************************************************************)
Expected(history) ==
  [isCheat |-> K(history) > 0,
   totalSubmissions |-> Len(history),
   skippedSubmissions |-> K(history),
   skippedPercentage |->
     IF Len(history) = 0 THEN Number(0)
     ELSE Quotient(100 * K(history), Len(history)),
   suspiciousSubmissions |->
     [j \in 1..Min(K(history), SliceEnd) |-> history[NthSentinel(history, j)]]]

(***************************************************************************)
(* C15: calls of analyzeUser that overlap are independent: whatever other  *)
(* calls are in flight and whatever they were made with or have received,  *)
(* the result a call produces when it succeeds is the AnalysisResult of    *)
(* the history returned to its own user.status request, and of nothing     *)
(* else.                                                                   *)
(***************************************************************************)
C15_ResultFromOwnHistory ==
  Succeeded => result = Some(Expected(Fetched))

\* a call has just succeeded over a history with sentinel verdicts while
\* another call, made with another input, is waiting for its own history
C15_Witness ==
  /\ Succeeded
  /\ K(Fetched) > 0
  /\ result = Some(Expected(Fetched))
  /\ \E j \in Invocations :
       /\ pc[j] = "jsonSubmissions"
       /\ handle[j] # username

(***************************************************************************)
(* C16: when calls of analyzeUser overlap and succeed, the result          *)
(* displayed once they have all completed is the one of the call that      *)
(* completed last: the step in which a call succeeds replaces whatever     *)
(* result is displayed by the result of that call, and the displayed       *)
(* result then changes only when a call begins or another call succeeds.   *)
(***************************************************************************)
C16_LastCompletedWins ==
  [][/\ \A i \in Invocations :
          (Resumed(i, "jsonSubmissions") /\ Succeeded') =>
            result' = Some(Analyze(Fetched'))
     /\ result' # result => (Succeeded' \/ \E i \in Invocations : Began(i))]_vars

\* two calls overlapped and succeeded: the second to complete has just
\* replaced the result of the first by its own, and no call is in flight
C16_Witness ==
  /\ Succeeded
  /\ overwritten # Null
  /\ result = Some(Analyze(Fetched))
  /\ result # overwritten
  /\ \A i \in Invocations : pc[i] = "idle"

(***************************************************************************)
(* The failures analyzeUser can surface, each with the kind it is a case   *)
(* of: what the caller is shown is the toast, the kind is what happened.   *)
(***************************************************************************)
FailedPayloads ==
  {[status |-> "FAILED", comment |-> c, result |-> <<>>] : c \in Comments}

Surfaced ==
  {<<"InvalidInput", EnterUsernameToast>>}
  \cup {<<"TransportError", ErrorToast(e)>> : e \in {FetchError, JsonError}}
  \cup {<<"ProfileNotFound",
          ErrorToast([name |-> "Error",
                      message |-> MessageOf(d, Generic("user.info"))])>> :
           d \in FailedPayloads}
  \cup {<<"HistoryFetchFailed",
          ErrorToast([name |-> "Error",
                      message |-> MessageOf(d, Generic("user.status"))])>> :
           d \in FailedPayloads}

\* the kind of the failure of the last step
KindOfFailure ==
  IF TransportFailed THEN "TransportError"
  ELSE IF delivered[1].api = "user.info" THEN "ProfileNotFound"
  ELSE "HistoryFetchFailed"

(***************************************************************************)
(* C17: a call of analyzeUser that fails surfaces one failure whose kind   *)
(* (InvalidInput, ProfileNotFound, HistoryFetchFailed, TransportError)     *)
(* tells which stage failed: what is shown for the failure of a step is    *)
(* an error, and is shown for failures of that kind only.                  *)
(***************************************************************************)
C17_FailureTellsItsKind ==
  (RemoteFailed \/ TransportFailed) =>
    /\ IsErrorToast(toast)
    /\ \A f \in Surfaced : f[2] = toast[1] => f[1] = KindOfFailure

(***************************************************************************)
(* C18: when a call of analyzeUser succeeds, totalSubmissions of the       *)
(* result is the length of the whole history returned to the call:         *)
(* submissions of every verdict and of no verdict are counted, whatever    *)
(* the number of sentinel verdicts among them.                             *)
(***************************************************************************)
C18_TotalIsLength ==
  Succeeded =>
    /\ result # Null
    /\ result[1].totalSubmissions = Len(Fetched)

\* a success over a long history with sentinel verdicts, other verdicts
\* and absent verdicts: the total is the length, not the sentinel count
C18_Witness ==
  /\ Succeeded
  /\ Len(Fetched) > SliceEnd
  /\ K(Fetched) > 0
  /\ \E i \in 1..Len(Fetched) : Fetched[i].verdict = Null
  /\ result[1].totalSubmissions = Len(Fetched)
  /\ result[1].totalSubmissions > result[1].skippedSubmissions

(***************************************************************************)
(* C19: in every state in which a result is displayed,                     *)
(* 0 <= skippedSubmissions <= totalSubmissions, and suspiciousSubmissions  *)
(* has at most min(skippedSubmissions, 10) elements.                       *)
(***************************************************************************)
C19_ResultInvariants ==
  result # Null =>
    /\ 0 <= result[1].skippedSubmissions
    /\ result[1].skippedSubmissions <= result[1].totalSubmissions
    /\ Len(result[1].suspiciousSubmissions)
         <= Min(result[1].skippedSubmissions, SliceEnd)

\* a result with more than 10 skipped submissions, fewer than the total,
\* still displayed after the step that produced it
C19_Witness ==
  /\ result # Null
  /\ delivered = Null
  /\ result[1].skippedSubmissions > SliceEnd
  /\ result[1].skippedSubmissions < result[1].totalSubmissions
  /\ Len(result[1].suspiciousSubmissions) = SliceEnd

(***************************************************************************)
(* C20: the history request of a call of analyzeUser carries the handle of *)
(* the profile request of that call, whatever is typed in the input        *)
(* between the two requests.                                               *)
(***************************************************************************)
C20_SameHandleInBothRequests ==
  \A i \in Invocations :
    Len(requests[i]) = 2 =>
      /\ requests[i][1].api = "user.info"
      /\ requests[i][2].api = "user.status"
      /\ requests[i][2].handle = requests[i][1].handle

\* the only call in flight has just sent its history request, after the
\* input was changed to another handle
C20_Witness ==
  \E i \in Invocations :
    /\ \A j \in Invocations \ {i} : pc[j] = "idle"
    /\ pc[i] = "fetchSubmissions"
    /\ delivered # Null
    /\ delivered[1].api = "user.info"
    /\ Len(requests[i]) = 2
    /\ ~IsBlank(username)
    /\ username # requests[i][1].handle
    /\ requests[i][2].handle = requests[i][1].handle

(***************************************************************************)
(* C21: a displayed profile is presented as unrated exactly when its       *)
(* rating is absent: the rating cell and the maximum rating cell show      *)
(* 'Unrated' if and only if the field is absent, and show the number of    *)
(* the field, 0 included, when it is present.                              *)
(***************************************************************************)
C21_UnratedOnlyWhenAbsent ==
  userInfo # Null =>
    \A rating \in {userInfo[1].rating, userInfo[1].maxRating} :
      /\ (RatingCell(rating).string = Some("Unrated")) <=> (rating = Null)
      /\ rating # Null => RatingCell(rating).number = rating

(***************************************************************************)
(* C22: a profile and a result displayed together come from the same call  *)
(* of analyzeUser: when a call displays its result, the profile displayed  *)
(* with it, if any, is the profile of the handle of that call.             *)
(***************************************************************************)
C22_ProfileAndResultOfOneCall ==
  [][\A i \in Invocations :
       (Resumed(i, "jsonSubmissions") /\ Succeeded' /\ userInfo' # Null) =>
         userInfo'[1].handle = Trim(handle[i])]_vars

\* the places of the calls in flight
InFlight == {i \in Invocations : pc[i] # "idle"}

(***************************************************************************)
(* C23: at most one call of analyzeUser is in flight at any time: while    *)
(* loading is true neither the Analyze button nor the Enter key starts a   *)
(* call.                                                                   *)
(***************************************************************************)
C23_AtMostOneInFlight == Cardinality(InFlight) <= 1

(***************************************************************************)
(* C24: loading is true in every state in which a call of analyzeUser is   *)
(* in flight (it has begun and waits for a response of the platform);      *)
(* loading is false only when no call is in flight.                        *)
(***************************************************************************)
C24_LoadingWhileInFlight == InFlight # {} => loading

(***************************************************************************)
(* C25: when every request eventually gets a response or fails, every      *)
(* call of analyzeUser that has begun eventually ends.  The step that ends *)
(* it sets loading to false and shows one toast: an error toast when the   *)
(* call failed, the toast of the analysis when it succeeded; the steps     *)
(* that leave the call in flight show no toast.                            *)
(***************************************************************************)
C25_EveryCallEndsWithOneToast ==
  /\ [][\A i \in Invocations :
          /\ (pc[i] # "idle" /\ pc'[i] = "idle") =>
               /\ loading' = FALSE
               /\ toast' # Null
               /\ IsErrorToast(toast') <=> ~Succeeded'
               /\ Succeeded' =>
                    toast' = IF K(Fetched') > 0
                               THEN Some(CheaterToast(K(Fetched')))
                               ELSE Some(CompleteToast)
          /\ (pc[i] # "idle" /\ pc'[i] # "idle" /\ pc'[i] # pc[i]) =>
               UNCHANGED toast]_vars
  /\ \A i \in Invocations : (pc[i] # "idle") ~> (pc[i] = "idle")

\* a call has just ended on the failure of json() of its profile response:
\* loading is false and the error is shown
C25_Witness ==
  /\ delivered # Null
  /\ delivered[1].api = "user.info"
  /\ delivered[1].error = Some(JsonError)
  /\ toast = Some(ErrorToast(JsonError))
  /\ ~loading
  /\ InFlight = {}

\* a call of analyzeUser is rejected in this step: with a blank input, the
\* step is neither an edit of the input nor a step of a call in flight
Rejected ==
  /\ IsBlank(username)
  /\ UNCHANGED <<username, pc>>
  /\ delivered' = Null

(***************************************************************************)
(* C26: a call of analyzeUser rejected for an empty or whitespace-only     *)
(* handle shows the "Please enter a username" error and changes nothing    *)
(* else: loading, the displayed profile, the displayed result and the      *)
(* calls in flight are as before.                                          *)
(***************************************************************************)
C26_RejectionOnlyToasts ==
  [][Rejected =>
       /\ toast' = Some(EnterUsernameToast)
       /\ UNCHANGED <<loading, userInfo, result>>
       /\ UNCHANGED calls]_vars

\* a call has been rejected while a profile and a result were displayed:
\* they still are
C26_Witness ==
  /\ IsBlank(username)
  /\ toast = Some(EnterUsernameToast)
  /\ userInfo # Null
  /\ result # Null
  /\ ~loading

(***************************************************************************)
(* C27: the step in which a call of analyzeUser begins clears the          *)
(* displayed profile and the displayed result and sends the profile        *)
(* request; while that call is the only one in flight the result stays     *)
(* null; and a result appears only in the step in which a call that has    *)
(* sent both its requests receives the OK envelope of its history.         *)
(***************************************************************************)
C27_ClearedUntilSuccess ==
  [][/\ \A i \in Invocations :
          /\ Began(i) =>
               /\ result' = Null
               /\ userInfo' = Null
               /\ requests'[i] = <<UserInfoRequest(username)>>
          /\ (InFlight = {i} /\ InFlight' = {i} /\ result = Null) =>
               result' = Null
     /\ (result = Null /\ result' # Null) =>
          \E j \in Invocations :
            /\ Resumed(j, "jsonSubmissions")
            /\ Len(requests[j]) = 2
            /\ Succeeded']_vars

\* a call has just begun after an analysis had completed: it is the only
\* one in flight, has sent its profile request, and nothing is displayed
C27_Witness ==
  \E i \in Invocations :
    /\ InFlight = {i}
    /\ pc[i] = "fetchUser"
    /\ Len(requests[i]) = 1
    /\ toast # Null
    /\ ~IsErrorToast(toast)
    /\ result = Null
    /\ userInfo = Null

(***************************************************************************)
(* C28: in the compact layout, whenever the table of skipped submissions   *)
(* is shown, the number in its heading "Skipped Submissions (n)" is the    *)
(* number of rows of the table.                                            *)
(***************************************************************************)
C28_HeadingCountsRows ==
  CompactTableShown(result) =>
    CompactHeadingCount(result) = Len(CompactRows(result))

(***************************************************************************)
(* C29: for every submission displayed, getProblemUrl returns a URL made   *)
(* of values the submission has: no piece of the URL is the text           *)
(* 'undefined', also when problem.contestId is absent.                     *)
(***************************************************************************)
C29_ProblemUrlWithoutUndefined ==
  result # Null =>
    \A k \in 1..Len(result[1].suspiciousSubmissions) :
      LET url == getProblemUrl(result[1].suspiciousSubmissions[k])
      IN \A j \in 1..Len(url) : url[j] # "undefined"

====
